---- MODULE Spec2Model ----
(***************************************************************************)
(* A model of the BOLT-11 tagged-field codec (src/src/tag.rs) and of the   *)
(* amount shortening of src/src/lnaddr.rs.                                 *)
(*                                                                         *)
(* Values of the program:                                                  *)
(*   Vec<u8>, Vec<U5>   sequences of integers                              *)
(*   u64                a BitNat: the binary digits of the number, most    *)
(*                      significant first, without leading zeros (0 is     *)
(*                      the empty sequence), so that the whole 64-bit      *)
(*                      range is covered although TLC's integers are       *)
(*                      32 bits wide                                       *)
(*   f64                [m, e]: the value m * 2^e, m a BitNat of exactly   *)
(*                      53 digits (0.0 has the empty m)                    *)
(*   String             the sequence of its bytes (Description) or of its  *)
(*                      characters (amounts)                               *)
(*   Result<T, Error>   Ok(v), Err(e); a panic is Panic(msg)               *)
(***************************************************************************)
EXTENDS Integers, Sequences, FiniteSets, TLC

Ok(v) == [ok |-> TRUE, val |-> v]

Err(e) == [ok |-> FALSE, err |-> e]

Panic(msg) == [ok |-> FALSE, panic |-> msg]

IsOk(r) == r.ok

IsPanic(r) == "panic" \in DOMAIN r

IsErr(r) == "err" \in DOMAIN r

\* No result yet: the operation has not run.
NoResult == [ok |-> FALSE, none |-> TRUE]

Zeros(n) == [i \in 1..n |-> 0]

(***************************************************************************)
(* BitNat arithmetic.                                                      *)
(***************************************************************************)
\* Drop the leading zeros.
Strip(bits) ==
    IF \A i \in 1..Len(bits) : bits[i] = 0 THEN <<>>
    ELSE LET first == CHOOSE i \in 1..Len(bits) :
                          bits[i] = 1 /\ \A j \in 1..(i - 1) : bits[j] = 0
         IN  SubSeq(bits, first, Len(bits))

RECURSIVE NatOfInt(_)
NatOfInt(n) == IF n = 0 THEN <<>> ELSE Append(NatOfInt(n \div 2), n % 2)

\* The accumulators of the recursive operators below are tested at each step
\* (Len(acc) >= 0, acc >= 0) only so that TLC evaluates them step by step.
RECURSIVE IntOfNatAux(_, _, _)
IntOfNatAux(bits, i, acc) ==
    IF i > Len(bits) \/ acc < 0 THEN acc
    ELSE IntOfNatAux(bits, i + 1, 2 * acc + bits[i])

\* Only for BitNats below 2^31.
IntOfNat(bits) == IntOfNatAux(bits, 1, 0)

RECURSIVE MulAddAux(_, _, _, _, _)
MulAddAux(bits, i, d, carry, acc) ==
    IF i = 0 \/ Len(acc) < 0 THEN [carry |-> carry, low |-> acc]
    ELSE LET t == bits[i] * d + carry
         IN  IF t % 2 = 1 THEN MulAddAux(bits, i - 1, d, t \div 2, <<1>> \o acc)
             ELSE MulAddAux(bits, i - 1, d, t \div 2, <<0>> \o acc)

\* bits * d + c, for 0 < d < 2^29 and 0 <= c < 2^29.
MulAdd(bits, d, c) ==
    LET x == MulAddAux(bits, Len(bits), d, c, <<>>)
    IN  Strip(NatOfInt(x.carry) \o x.low)

RECURSIVE DivAux(_, _, _, _, _)
DivAux(bits, i, d, r, q) ==
    IF i > Len(bits) \/ Len(q) < 0 THEN [q |-> q, r |-> r]
    ELSE LET t == 2 * r + bits[i]
         IN  IF t >= d THEN DivAux(bits, i + 1, d, t - d, Append(q, 1))
             ELSE DivAux(bits, i + 1, d, t, Append(q, 0))

\* Quotient and remainder of bits by d, for 0 < d < 2^29.
DivSmall(bits, d) ==
    LET x == DivAux(bits, 1, d, 0, <<>>)
    IN  [q |-> Strip(x.q), r |-> x.r]

Pow5(u) == 5^u

RECURSIVE MulPow1000(_, _)
MulPow1000(bits, j) == IF j = 0 THEN bits ELSE MulPow1000(MulAdd(bits, 1000, 0), j - 1)

(***************************************************************************)
(* u64::to_string and the parse of a decimal integer.                      *)
(***************************************************************************)
DigitChars == <<"0", "1", "2", "3", "4", "5", "6", "7", "8", "9">>

DigitOf(c) == CHOOSE d \in 0..9 : DigitChars[d + 1] = c

IsDigit(c) == \E d \in 0..9 : DigitChars[d + 1] = c

RECURSIVE DecimalAux(_)
DecimalAux(bits) ==
    IF bits = <<>> THEN <<>>
    ELSE LET qr == DivSmall(bits, 10)
         IN  Append(DecimalAux(qr.q), DigitChars[qr.r + 1])

\* u64::to_string: the decimal digits, "0" for zero.
to_string(bits) == IF bits = <<>> THEN <<"0">> ELSE DecimalAux(bits)

RECURSIVE NatOfDecimalAux(_, _, _)
NatOfDecimalAux(s, i, acc) ==
    IF i > Len(s) \/ Len(acc) < 0 THEN acc
    ELSE NatOfDecimalAux(s, i + 1, MulAdd(acc, 10, DigitOf(s[i])))

NatOfDecimal(s) == NatOfDecimalAux(s, 1, <<>>)

(***************************************************************************)
(* IEEE-754 binary64, round to nearest, ties to even.  Only positive       *)
(* normal numbers and zero occur.                                          *)
(***************************************************************************)
F64Zero == [m |-> <<>>, e |-> 0]

MantissaBits == 53

\* The f64 nearest to bits * 2^e (+ a positive fraction of 2^e when sticky).
RoundToF64(bits, e, sticky) ==
    LET L == Len(bits) IN
    IF L = 0 THEN F64Zero
    ELSE IF L <= MantissaBits
    THEN [m |-> bits \o Zeros(MantissaBits - L), e |-> e - (MantissaBits - L)]
    ELSE LET m0 == SubSeq(bits, 1, MantissaBits)
             guard == bits[MantissaBits + 1] = 1
             rest == sticky \/ \E i \in (MantissaBits + 2)..L : bits[i] = 1
             up == guard /\ (rest \/ m0[MantissaBits] = 1)
             m1 == IF up THEN MulAdd(m0, 1, 1) ELSE m0
         IN  IF Len(m1) > MantissaBits
             THEN [m |-> SubSeq(m1, 1, MantissaBits), e |-> e + (L - MantissaBits) + 1]
             ELSE [m |-> m1, e |-> e + (L - MantissaBits)]

\* u64 as f64, and the parse of a decimal integer as f64.
F64FromNat(bits) == RoundToF64(bits, 0, FALSE)

\* The f64 nearest to bits * 2^e / 10^u, 0 <= u <= 12.  A quotient by
\* 5^u < 2^28 of a number of 84 binary digits has more than 55 of them: enough
\* to round it to 53.
F64Quot(bits, e, u) ==
    IF bits = <<>> THEN F64Zero
    ELSE LET shift == IF Len(bits) >= 84 THEN 0 ELSE 84 - Len(bits)
             qr == DivSmall(bits \o Zeros(shift), Pow5(u))
         IN  RoundToF64(qr.q, e - shift - u, qr.r # 0)

\* x / 10f64.powi(u)
F64DivPow10(x, u) == F64Quot(x.m, x.e, u)

\* x * 10f64.powi(u): 10^u = 5^u * 2^u is exact in f64 for u <= 12.
F64MulPow10(x, u) ==
    IF x.m = <<>> THEN F64Zero
    ELSE RoundToF64(MulAdd(x.m, Pow5(u), 0), x.e + u, FALSE)

U64Bits == 64

\* `x as u64`: towards zero, saturating.
F64ToU64(x) ==
    IF x.m = <<>> THEN <<>>
    ELSE IF x.e >= 0
    THEN IF Len(x.m) + x.e > U64Bits THEN [i \in 1..U64Bits |-> 1]
         ELSE x.m \o Zeros(x.e)
    ELSE IF -x.e >= Len(x.m) THEN <<>>
    ELSE SubSeq(x.m, 1, Len(x.m) + x.e)

(***************************************************************************)
(* src/src/lnaddr.rs                                                       *)
(***************************************************************************)
Units == <<"p", "n", "u", "m">>

RECURSIVE shorten_amount_aux(_, _)
shorten_amount_aux(amount, units) ==
    IF Len(units) = 0 THEN to_string(amount)
    ELSE LET qr == DivSmall(amount, 1000)
         IN  IF qr.r = 0 THEN shorten_amount_aux(qr.q, Tail(units))
             ELSE Append(to_string(amount), units[1])

shorten_amount(amount) ==
    LET pico_amount == F64ToU64(F64MulPow10(amount, 12))
    IN  shorten_amount_aux(pico_amount, Units)

UnitExponent(c) ==
    CASE c = "p" -> 12 [] c = "n" -> 9 [] c = "u" -> 6 [] c = "m" -> 3 [] OTHER -> -1

\* str::parse::<f64> on the strings shorten_amount produces: decimal integers.
parse_f64(s) ==
    IF Len(s) > 0 /\ \A i \in 1..Len(s) : IsDigit(s[i])
    THEN Ok(F64FromNat(NatOfDecimal(s)))
    ELSE Err("ParseFloatError")

unshorten_amount(amount) ==
    LET unit == IF Len(amount) = 0 THEN -1 ELSE UnitExponent(amount[Len(amount)])
    IN  IF unit >= 0
        THEN LET v == parse_f64(SubSeq(amount, 1, Len(amount) - 1))
             IN  IF IsOk(v) THEN Ok(F64DivPow10(v.val, unit)) ELSE Panic("Invalid amount")
        ELSE LET v == parse_f64(amount)
             IN  IF IsOk(v) THEN v ELSE Panic("Invalid amount")

(***************************************************************************)
(* The build.  u8 arithmetic that overflows panics when the build checks   *)
(* overflow (debug profile) and wraps modulo 256 when it does not          *)
(* (release profile).                                                      *)
(***************************************************************************)
VARIABLE overflow_checks

U8Wrap(n) == IF overflow_checks /\ n > 255
             THEN Panic("attempt to do arithmetic with overflow")
             ELSE Ok(n % 256)

U8Mul(a, b) == U8Wrap(a * b)

\* a is the result of an earlier u8 operation.
U8Add(a, b) == IF IsOk(a) THEN U8Wrap(a.val + b) ELSE a

(***************************************************************************)
(* utils: conversions between 8-bit and 5-bit sequences and between u64    *)
(* and 5-bit sequences.                                                    *)
(***************************************************************************)
\* The i-th binary digit (from 1, most significant first) of a byte sequence.
ByteBit(bytes, i) == (bytes[((i - 1) \div 8) + 1] \div 2^(7 - ((i - 1) % 8))) % 2

\* The i-th binary digit of a sequence of 5-bit symbols.
U5Bit(u5, i) == (u5[((i - 1) \div 5) + 1] \div 2^(4 - ((i - 1) % 5))) % 2

\* Vec<u8>::to_u5_vec(true): ceil(8n/5) symbols, the last padded with zeros.
to_u5_vec(bytes) ==
    LET nbits == 8 * Len(bytes)
        n == (nbits + 4) \div 5
        bit(i) == IF i <= nbits THEN ByteBit(bytes, i) ELSE 0
    IN  Ok([j \in 1..n |-> 16 * bit(5 * j - 4) + 8 * bit(5 * j - 3) + 4 * bit(5 * j - 2)
                           + 2 * bit(5 * j - 1) + bit(5 * j)])

\* Vec<U5>::to_u8_vec(false): floor(5m/8) bytes; the discarded digits must be 0.
to_u8_vec(u5) ==
    LET nbits == 5 * Len(u5)
        n == nbits \div 8
        bit(i) == U5Bit(u5, i)
    IN  IF \E i \in 1..Len(u5) : u5[i] > 31 THEN Err("InvalidU5")
        ELSE IF \E i \in (8 * n + 1)..nbits : bit(i) = 1 THEN Err("InvalidPadding")
        ELSE Ok([j \in 1..n |-> 128 * bit(8 * j - 7) + 64 * bit(8 * j - 6)
                                + 32 * bit(8 * j - 5) + 16 * bit(8 * j - 4)
                                + 8 * bit(8 * j - 3) + 4 * bit(8 * j - 2)
                                + 2 * bit(8 * j - 1) + bit(8 * j)])

\* u64::to_u5_vec(): the minimal big-endian base-32 digits, [0] for 0.
u64_to_u5_vec(n) ==
    IF n = <<>> THEN <<0>>
    ELSE LET k == (Len(n) + 4) \div 5
             pad == 5 * k - Len(n)
             bit(i) == IF i <= pad THEN 0 ELSE n[i - pad]
         IN  [j \in 1..k |-> 16 * bit(5 * j - 4) + 8 * bit(5 * j - 3) + 4 * bit(5 * j - 2)
                             + 2 * bit(5 * j - 1) + bit(5 * j)]

\* Vec<U5>::u5_vec_to_u64(len): the first len symbols folded in base 32.
u5_vec_to_u64(u5, len) ==
    LET bits == Strip([i \in 1..(5 * len) |-> U5Bit(u5, i)])
    IN  IF Len(bits) > U64Bits THEN Panic("Overflow") ELSE Ok(bits)

(***************************************************************************)
(* byteorder::BigEndian                                                    *)
(***************************************************************************)
\* write_u64 / write_u32 / write_u16: n in `width` bytes, big-endian.
BEBytes(n, width) ==
    LET pad == 8 * width - Len(n)
        bit(i) == IF i <= pad THEN 0 ELSE n[i - pad]
    IN  [j \in 1..width |-> 128 * bit(8 * j - 7) + 64 * bit(8 * j - 6)
                            + 32 * bit(8 * j - 5) + 16 * bit(8 * j - 4)
                            + 8 * bit(8 * j - 3) + 4 * bit(8 * j - 2)
                            + 2 * bit(8 * j - 1) + bit(8 * j)]

\* read_u64 / read_u32 / read_u16
BEValue(bytes) == Strip([i \in 1..(8 * Len(bytes)) |-> ByteBit(bytes, i)])

(***************************************************************************)
(* Rust slices: v[a..b] (0-based, b exclusive) panics out of range.        *)
(***************************************************************************)
Slice(v, a, b) ==
    IF a <= b /\ b <= Len(v) THEN Ok(SubSeq(v, a + 1, b))
    ELSE Panic("slice index out of range")

(***************************************************************************)
(* String::from_utf8 on the bytes of a description.                        *)
(***************************************************************************)
IsCont(b) == b >= 128 /\ b <= 191

\* The length of the UTF-8 sequence a lead byte starts, 0 when it starts none.
Utf8Width(b) ==
    IF b <= 127 THEN 1
    ELSE IF b >= 194 /\ b <= 223 THEN 2
    ELSE IF b >= 224 /\ b <= 239 THEN 3
    ELSE IF b >= 240 /\ b <= 244 THEN 4
    ELSE 0

\* The range of the second byte after lead byte b.
Utf8SecondOk(b, c) ==
    CASE b = 224 -> c >= 160 /\ c <= 191
      [] b = 237 -> c >= 128 /\ c <= 159
      [] b = 240 -> c >= 144 /\ c <= 191
      [] b = 244 -> c >= 128 /\ c <= 143
      [] OTHER   -> IsCont(c)

IsUtf8(bytes) ==
    LET n == Len(bytes) IN
    /\ n > 0 => ~IsCont(bytes[1])
    /\ \A i \in 1..n :
          IsCont(bytes[i]) \/
             LET w == Utf8Width(bytes[i]) IN
             /\ w > 0
             /\ i + w - 1 <= n
             /\ \A j \in (i + 1)..(i + w - 1) : IsCont(bytes[j])
             /\ w > 1 => Utf8SecondOk(bytes[i], bytes[i + 1])
             /\ i + w <= n => ~IsCont(bytes[i + w])

from_utf8(bytes) == IF IsUtf8(bytes) THEN Ok(bytes) ELSE Err("FromUTF8Err")

(***************************************************************************)
(* src/src/tag.rs: ExtraHop                                                *)
(***************************************************************************)
CHUNK_LENGTH == 51

ExtraHop(pub_key, short_channel_id, fee_base_msat, fee_proportional_millionths, cltv_expiry_delta) ==
    [pub_key |-> pub_key, short_channel_id |-> short_channel_id,
     fee_base_msat |-> fee_base_msat,
     fee_proportional_millionths |-> fee_proportional_millionths,
     cltv_expiry_delta |-> cltv_expiry_delta]

\* pack with the key written after the numbers instead of before them.
ExtraHop_pack_key_last(hop) ==
    LET wtr == BEBytes(hop.short_channel_id, 8) \o BEBytes(hop.fee_base_msat, 4)
               \o BEBytes(hop.fee_proportional_millionths, 4)
               \o BEBytes(hop.cltv_expiry_delta, 2)
    IN  Ok(wtr \o hop.pub_key)

ExtraHop_pack(hop) ==
    LET wtr == BEBytes(hop.short_channel_id, 8) \o BEBytes(hop.fee_base_msat, 4)
               \o BEBytes(hop.fee_proportional_millionths, 4)
               \o BEBytes(hop.cltv_expiry_delta, 2)
    IN  Ok(hop.pub_key \o wtr)

\* data[0..33], ..., data[49..51]: panics on fewer than 51 bytes.
ExtraHop_parse(data) ==
    IF Len(data) < CHUNK_LENGTH THEN Panic("slice index out of range")
    ELSE Ok(ExtraHop(SubSeq(data, 1, 33),
                     BEValue(SubSeq(data, 34, 41)),
                     BEValue(SubSeq(data, 42, 45)),
                     BEValue(SubSeq(data, 46, 49)),
                     BEValue(SubSeq(data, 50, CHUNK_LENGTH))))

\* slice::chunks(n): consecutive n-element slices, the last one maybe shorter.
Chunks(data, n) ==
    [i \in 1..((Len(data) + n - 1) \div n) |->
        SubSeq(data, n * (i - 1) + 1, IF n * i <= Len(data) THEN n * i ELSE Len(data))]

IsWholeChunk(c) == Len(c) = CHUNK_LENGTH

ExtraHop_parse_all(data) ==
    LET whole == SelectSeq(Chunks(data, CHUNK_LENGTH), IsWholeChunk)
    IN  [i \in 1..Len(whole) |-> ExtraHop_parse(whole[i]).val]

(***************************************************************************)
(* src/src/tag.rs: Tag                                                     *)
(***************************************************************************)
\* BECH32_ALPHABET[&'p'], ...
LetterP == 1

LetterD == 13

LetterH == 23

LetterF == 9

LetterX == 6

LetterC == 24

LetterR == 3

PaymentHash(hash) == [kind |-> "PaymentHash", hash |-> hash]

Description(description) == [kind |-> "Description", description |-> description]

DescriptionHash(hash) == [kind |-> "DescriptionHash", hash |-> hash]

FallbackAddress(version, hash) ==
    [kind |-> "FallbackAddress", version |-> version, hash |-> hash]

Expiry(seconds) == [kind |-> "Expiry", seconds |-> seconds]

MinFinalCltvExpiry(blocks) == [kind |-> "MinFinalCltvExpiry", blocks |-> blocks]

RoutingInfo(path) == [kind |-> "RoutingInfo", path |-> path]

UnknownTag(tag, bytes) == [kind |-> "UnknownTag", tag |-> tag, bytes |-> bytes]

\* The u8 a usize is cast to.
AsU8(n) == n % 256

vec_u5_aux(value, data) ==
    IF IsOk(data)
    THEN LET bytes == data.val
             len == Len(bytes)
         IN  Ok(<<value, AsU8(len \div 32), AsU8(len % 32)>> \o bytes)
    ELSE data

write_size(size) ==
    LET output == u64_to_u5_vec(NatOfInt(size))
    IN  CASE Len(output) = 0 -> Ok(<<0, 0>>)
          [] Len(output) = 1 -> Ok(<<0>> \o output)
          [] Len(output) = 2 -> Ok(output)
          [] OTHER -> Err("InvalidLength")

RECURSIVE PackAll(_, _, _)
\* path.iter().map(|hop| hop.pack()).fold_results(Vec::new(), extend)
PackAll(path, i, acc) ==
    IF i > Len(path) \/ Len(acc) < 0 THEN Ok(acc)
    ELSE LET hop == ExtraHop_pack(path[i])
         IN  IF IsOk(hop) THEN PackAll(path, i + 1, acc \o hop.val) ELSE hop

to_vec_u5(tag) ==
    CASE tag.kind = "PaymentHash" -> vec_u5_aux(LetterP, to_u5_vec(tag.hash))
      [] tag.kind = "Description" -> vec_u5_aux(LetterD, to_u5_vec(tag.description))
      [] tag.kind = "DescriptionHash" -> vec_u5_aux(LetterH, to_u5_vec(tag.hash))
      [] tag.kind = "FallbackAddress" ->
            LET b == to_u5_vec(tag.hash)
                bytes == IF IsOk(b) THEN Ok(<<tag.version>> \o b.val) ELSE b
            IN  vec_u5_aux(LetterF, bytes)
      [] tag.kind = "Expiry" ->
            LET bytes == u64_to_u5_vec(tag.seconds)
                size == write_size(Len(bytes))
            IN  IF IsOk(size) THEN Ok(<<LetterX>> \o size.val \o bytes) ELSE size
      [] tag.kind = "MinFinalCltvExpiry" ->
            LET bytes == u64_to_u5_vec(tag.blocks)
                size == write_size(Len(bytes))
            IN  IF IsOk(size) THEN Ok(<<LetterC>> \o size.val \o bytes) ELSE size
      [] tag.kind = "RoutingInfo" ->
            LET v == PackAll(tag.path, 1, <<>>)
                bytes == IF IsOk(v) THEN to_u5_vec(v.val) ELSE v
            IN  vec_u5_aux(LetterR, bytes)
      [] tag.kind = "UnknownTag" ->
            LET size == write_size(Len(tag.bytes))
            IN  IF IsOk(size) THEN Ok(<<tag.tag>> \o size.val \o tag.bytes) ELSE size

\* (v[0] * 32 + v[1]) as usize, in u8 arithmetic.
DeclaredLen(hi, lo) == U8Add(U8Mul(hi, 32), lo)

\* The match of Tag::parse on the tag letter, len being the declared length.
ParseBody(input, tag, len) ==
    CASE tag = LetterP ->
            LET sl == Slice(input, 3, 55)
                hash_result == IF IsOk(sl) THEN to_u8_vec(sl.val) ELSE sl
            IN  IF IsOk(hash_result) THEN Ok(PaymentHash(hash_result.val))
                ELSE hash_result
      [] tag = LetterD ->
            LET sl == Slice(input, 3, len + 3)
                description_result == IF IsOk(sl) THEN to_u8_vec(sl.val) ELSE sl
                text == IF IsOk(description_result)
                        THEN from_utf8(description_result.val)
                        ELSE description_result
            IN  IF IsOk(text) THEN Ok(Description(text.val)) ELSE text
      [] tag = LetterH ->
            LET sl == Slice(input, 3, len + 3)
                hash_result == IF IsOk(sl) THEN to_u8_vec(sl.val) ELSE sl
            IN  IF IsOk(hash_result) THEN Ok(DescriptionHash(hash_result.val))
                ELSE hash_result
      [] tag = LetterF ->
            IF Len(input) < 4 THEN Panic("index out of bounds")
            ELSE LET version == input[4]
                     sl == Slice(input, 4, len + 3)
                     hash_result == IF IsOk(sl) THEN to_u8_vec(sl.val) ELSE sl
                 IN  IF IsPanic(sl) THEN sl
                     ELSE IF version <= 18
                     THEN IF IsOk(hash_result)
                          THEN Ok(FallbackAddress(version, hash_result.val))
                          ELSE hash_result
                     ELSE LET raw == Slice(input, 3, len + 3)
                          IN  IF IsOk(raw) THEN Ok(UnknownTag(tag, raw.val)) ELSE raw
      [] tag = LetterR ->
            LET sl == Slice(input, 3, len + 3)
                data_result == IF IsOk(sl) THEN to_u8_vec(sl.val) ELSE sl
            IN  IF IsOk(data_result)
                THEN Ok(RoutingInfo(ExtraHop_parse_all(data_result.val)))
                ELSE data_result
      [] tag = LetterX ->
            LET sl == Slice(input, 3, len + 3)
                seconds == IF IsOk(sl) THEN u5_vec_to_u64(sl.val, len) ELSE sl
            IN  IF IsOk(seconds) THEN Ok(Expiry(seconds.val)) ELSE seconds
      [] tag = LetterC ->
            LET sl == Slice(input, 3, len + 3)
                blocks == IF IsOk(sl) THEN u5_vec_to_u64(sl.val, len) ELSE sl
            IN  IF IsOk(blocks) THEN Ok(MinFinalCltvExpiry(blocks.val)) ELSE blocks
      [] OTHER ->
            LET sl == Slice(input, 3, len + 3)
            IN  IF IsOk(sl) THEN Ok(UnknownTag(tag, sl.val)) ELSE sl

Tag_parse(input) ==
    IF Len(input) < 1 THEN Err("InvalidLength")
    ELSE IF Len(input) < 3 THEN Err("InvalidLength")
    ELSE LET len == DeclaredLen(input[2], input[3])
         IN  IF IsPanic(len) THEN len
             ELSE IF ~(len.val <= Len(input) + 3) THEN Err("InvalidLength")
             ELSE ParseBody(input, input[1], len.val)

(***************************************************************************)
(* The inputs.                                                             *)
(***************************************************************************)
\* n bytes / n 5-bit symbols: a * i + b, wrapped.
Pattern(n, a, b) == [i \in 1..n |-> (a * i + b) % 256]

U5Pattern(n, a, b) == [i \in 1..n |-> (a * i + b) % 32]

Ones(n) == [i \in 1..n |-> 1]

\* n ASCII letters.
Letters(n) == [i \in 1..n |-> 97 + (i % 26)]

RECURSIVE Concat(_, _)
Concat(seqs, i) == IF i > Len(seqs) THEN <<>> ELSE seqs[i] \o Concat(seqs, i + 1)

SeqsUpTo(S, n) == UNION {[1..m -> S] : m \in 0..n}

\* 'ナンセンス 1杯'
Nonsense == <<227, 131, 138, 227, 131, 179, 227, 130, 187, 227, 131, 179, 227, 130, 185, 32,
              49, 230, 157, 175>>

Hashes32 == {Pattern(32, a, b) : a \in {0, 7}, b \in {0, 1}}

\* 640 bytes are 1024 symbols, 663 bytes (13 hops) are 1061.
OversizeBytes == Pattern(640, 3, 1)

DescriptionLens == {0, 1, 2, 3, 5, 39, 159, 160, 639}

U64Samples ==
    {<<>>, <<1>>, Ones(5), NatOfInt(32), NatOfInt(60), NatOfInt(3600), <<1>> \o Zeros(32),
     Ones(64)}

PubKeys == {Pattern(33, 0, 2), Pattern(33, 7, 3)}

HopSamples ==
    {ExtraHop(k, c, b, f, d) :
        k \in PubKeys \cup {Pattern(32, 5, 1)},
        c \in {<<>>, <<1>>, <<1>> \o Zeros(56), Ones(64)},
        b \in {<<>>, <<1>>, Ones(32)},
        f \in {NatOfInt(20), Ones(32)},
        d \in {<<>>, NatOfInt(3), Ones(16)}}

HopA == ExtraHop(Pattern(33, 0, 2), <<1>> \o Zeros(56), <<1>>, NatOfInt(20), NatOfInt(3))

HopB == ExtraHop(Pattern(33, 7, 3), Ones(64), Ones(32), NatOfInt(30), NatOfInt(4))

\* A path of n hops, HopA and HopB in turn.
PathOf(n) == [i \in 1..n |-> IF i % 2 = 1 THEN HopA ELSE HopB]

PathLens == {0, 1, 2, 3, 4, 5, 13}

UnknownLetters == {0, 2, 31}

UnknownLens == {0, 1, 2, 31, 32, 255, 256, 1023, 1024}

TagInputs ==
    {PaymentHash(h) : h \in Hashes32 \cup {OversizeBytes}}
    \cup {DescriptionHash(h) : h \in Hashes32 \cup {OversizeBytes}}
    \cup {Description(Letters(n)) : n \in DescriptionLens}
    \cup {Description(Nonsense), Description(OversizeBytes)}
    \cup {FallbackAddress(v, h) :
            v \in {0, 17, 18, 19, 31},
            h \in {Pattern(20, 11, 5), Pattern(32, 13, 7), OversizeBytes}}
    \cup {Expiry(n) : n \in U64Samples}
    \cup {MinFinalCltvExpiry(n) : n \in U64Samples}
    \cup {RoutingInfo(PathOf(n)) : n \in PathLens}
    \cup {UnknownTag(t, U5Pattern(n, a, 1)) :
            t \in UnknownLetters \cup {LetterP}, n \in UnknownLens, a \in {0, 3}}

\* The length symbols and the payloads of the streams given to Tag::parse.
HiSamples == {0, 1, 7, 8, 31}

LoSamples == {0, 1, 20, 29, 31}

TypeSamples == {LetterP, LetterD, LetterH, LetterF, LetterX, LetterC, LetterR, 2, 31}

\* Payload lengths tried for a declared length n: exact, one short, 52 (a
\* payment hash), two more.
PayloadLens(n) == {n, 52, n + 2} \cup (IF n > 0 THEN {n - 1} ELSE {})

ParseInputs ==
    {<<>>}
    \cup {<<t>> : t \in TypeSamples}
    \cup {<<t, hi>> : t \in TypeSamples, hi \in HiSamples}
    \cup UNION {{<<t, hi, lo>> \o U5Pattern(n, 0, b) :
                    n \in PayloadLens(hi * 32 + lo), b \in {0, 19}} :
                 t \in TypeSamples, hi \in HiSamples, lo \in LoSamples}
    \cup {<<LetterF, 0, 2, v, 5>> : v \in 0..31}

\* The tags of the lists given to Tag::parse_all, once serialized.
SmallTags ==
    {Expiry(NatOfInt(60)), MinFinalCltvExpiry(NatOfInt(12)), Description(Letters(1)),
     Description(<<>>), UnknownTag(2, <<>>), UnknownTag(2, <<5>>),
     PaymentHash(Pattern(32, 7, 1))}

Remnants == {<<>>, <<0>>, <<0, 0>>}

MaxTags == 2

\* Raw tags: two well-formed ones, an empty one, invalid UTF-8 (0xFF), invalid
\* padding, a payload shorter than declared, and tags whose size overflows u8.
RawTags ==
    {<<6, 0, 2, 1, 28>>, <<24, 0, 1, 12>>, <<2, 0, 0>>, <<13, 0, 2, 31, 28>>,
     <<23, 0, 2, 0, 1>>, <<2, 0, 5, 1>>,
     <<2, 7, 29>> \o Zeros(253), <<2, 7, 30>> \o Zeros(254), <<2, 8, 0>> \o Zeros(256)}

MaxStreamTags == 2

\* Amounts in pico-BTC: c * 1000^j, and the limits of u64 and of f64's integers.
MaxCoeff == 130

AmountSamples ==
    {MulPow1000(NatOfInt(c), j) : c \in 0..MaxCoeff, j \in 0..4}
    \cup {NatOfInt(1200), Ones(64), <<1>> \o Zeros(52) \o <<1>>}

MaxBufHops == 3

TailLens == {0, 1, 25, 50}

(***************************************************************************)
(* The state: one call sequence on one input.                              *)
(*   scenario  the calls made on the input:                                *)
(*     "tag"     Tag::to_vec_u5(tag), then Tag::parse of its output        *)
(*     "input"   Tag::parse(input), then Tag::to_vec_u5 of its output      *)
(*     "tags"    Tag::parse_all of the serialized tags followed by remnant *)
(*     "stream"  Tag::parse_all(stream)                                    *)
(*     "amount"  shorten_amount(amount), then unshorten_amount             *)
(*     "hop"     ExtraHop::pack(hop), then ExtraHop::parse                 *)
(*     "buf"     ExtraHop::parse_all(buf)                                  *)
(*   step      the number of calls made so far                             *)
(***************************************************************************)
VARIABLES scenario, step,
          tag, enc, dec,
          input, parsed, reenc,
          tags, remnant, stream, pa_pc, data, raw_tags, all,
          pico, amount, short, unshort,
          hop, packed, hop_parsed,
          path, buf, hops

vars == <<overflow_checks, scenario, step, tag, enc, dec, input, parsed, reenc,
          tags, remnant, stream, pa_pc, data, raw_tags, all,
          pico, amount, short, unshort, hop, packed, hop_parsed, path, buf, hops>>

tag_vars == <<tag, enc, dec>>

input_vars == <<input, parsed, reenc>>

all_vars == <<tags, remnant, stream, pa_pc, data, raw_tags, all>>

amount_vars == <<pico, amount, short, unshort>>

hop_vars == <<hop, packed, hop_parsed>>

buf_vars == <<path, buf, hops>>

\* The value of a variable its scenario does not use.
Unused == [unused |-> TRUE]

NoTag == tag = Unused /\ enc = NoResult /\ dec = NoResult

NoInput == input = <<>> /\ parsed = NoResult /\ reenc = NoResult

NoStream ==
    /\ tags = <<>> /\ remnant = <<>> /\ stream = <<>> /\ pa_pc = "idle"
    /\ data = <<>> /\ raw_tags = <<>> /\ all = NoResult

NoAmount == pico = <<>> /\ amount = F64Zero /\ short = <<>> /\ unshort = NoResult

NoHop == hop = Unused /\ packed = NoResult /\ hop_parsed = NoResult

NoBuf == path = <<>> /\ buf = <<>> /\ hops = <<>>

InitTag ==
    /\ scenario = "tag"
    /\ \E t \in TagInputs : tag = t
    /\ enc = NoResult /\ dec = NoResult
    /\ NoInput /\ NoStream /\ NoAmount /\ NoHop /\ NoBuf

InitInput ==
    /\ scenario = "input"
    /\ \E v \in ParseInputs : input = v
    /\ parsed = NoResult /\ reenc = NoResult
    /\ NoTag /\ NoStream /\ NoAmount /\ NoHop /\ NoBuf

\* The serialized tags one after the other, then the remnant.
StreamOf(ts, rem) == Concat([i \in 1..Len(ts) |-> to_vec_u5(ts[i]).val], 1) \o rem

InitTags ==
    /\ scenario = "tags"
    /\ \E ts \in SeqsUpTo(SmallTags, MaxTags), rem \in Remnants :
          /\ tags = ts /\ remnant = rem
          /\ stream = StreamOf(ts, rem) /\ data = StreamOf(ts, rem)
    /\ pa_pc = "loop" /\ raw_tags = <<>> /\ all = NoResult
    /\ NoTag /\ NoInput /\ NoAmount /\ NoHop /\ NoBuf

InitStream ==
    /\ scenario = "stream"
    /\ \E raws \in SeqsUpTo(RawTags, MaxStreamTags), rem \in Remnants :
          /\ remnant = rem
          /\ stream = Concat(raws, 1) \o rem /\ data = Concat(raws, 1) \o rem
    /\ tags = <<>> /\ pa_pc = "loop" /\ raw_tags = <<>> /\ all = NoResult
    /\ NoTag /\ NoInput /\ NoAmount /\ NoHop /\ NoBuf

\* The amount pico * 10^-12 as the nearest f64.
InitAmount ==
    /\ scenario = "amount"
    /\ \E k \in AmountSamples : pico = k /\ amount = F64Quot(k, 0, 12)
    /\ short = <<>> /\ unshort = NoResult
    /\ NoTag /\ NoInput /\ NoStream /\ NoHop /\ NoBuf

InitHop ==
    /\ scenario = "hop"
    /\ \E h \in HopSamples : hop = h
    /\ packed = NoResult /\ hop_parsed = NoResult
    /\ NoTag /\ NoInput /\ NoStream /\ NoAmount /\ NoBuf

\* The packed hops one after the other, then a tail shorter than a chunk.
BufOf(hs, n) ==
    Concat([i \in 1..Len(hs) |-> ExtraHop_pack(hs[i]).val], 1) \o Pattern(n, 9, 4)

InitBuf ==
    /\ scenario = "buf"
    /\ \E hs \in SeqsUpTo({HopA, HopB}, MaxBufHops), n \in TailLens :
          path = hs /\ buf = BufOf(hs, n)
    /\ hops = <<>>
    /\ NoTag /\ NoInput /\ NoStream /\ NoAmount /\ NoHop

Init ==
    /\ overflow_checks \in BOOLEAN
    /\ step = 0
    /\ \/ InitTag \/ InitInput \/ InitTags \/ InitStream
       \/ InitAmount \/ InitHop \/ InitBuf

(***************************************************************************)
(* The calls.                                                              *)
(***************************************************************************)
Encode ==
    /\ scenario = "tag" /\ step = 0
    /\ enc' = to_vec_u5(tag)
    /\ step' = 1
    /\ UNCHANGED <<overflow_checks, scenario, tag, dec>>
    /\ UNCHANGED <<input_vars, all_vars, amount_vars, hop_vars, buf_vars>>

Decode ==
    /\ scenario = "tag" /\ step = 1 /\ IsOk(enc)
    /\ dec' = Tag_parse(enc.val)
    /\ step' = 2
    /\ UNCHANGED <<overflow_checks, scenario, tag, enc>>
    /\ UNCHANGED <<input_vars, all_vars, amount_vars, hop_vars, buf_vars>>

Parse ==
    /\ scenario = "input" /\ step = 0
    /\ parsed' = Tag_parse(input)
    /\ step' = 1
    /\ UNCHANGED <<overflow_checks, scenario, input, reenc>>
    /\ UNCHANGED <<tag_vars, all_vars, amount_vars, hop_vars, buf_vars>>

Reencode ==
    /\ scenario = "input" /\ step = 1 /\ IsOk(parsed)
    /\ reenc' = to_vec_u5(parsed.val)
    /\ step' = 2
    /\ UNCHANGED <<overflow_checks, scenario, input, parsed>>
    /\ UNCHANGED <<tag_vars, all_vars, amount_vars, hop_vars, buf_vars>>

\* The iterations of the loop of parse_all the model follows.
MaxRawTags == 4

\* (data[1] * 32 + data[2] + 3) as usize, in u8 arithmetic.
TagSize(hi, lo) == U8Add(U8Add(U8Mul(hi, 32), lo), 3)

\* One iteration of `while data.len() > 3`.
ParseAllStep ==
    /\ pa_pc = "loop" /\ Len(data) > 3 /\ Len(raw_tags) < MaxRawTags
    /\ LET len == TagSize(data[2], data[3])
       IN  IF IsPanic(len)
           THEN all' = len /\ pa_pc' = "done" /\ UNCHANGED <<data, raw_tags>>
           ELSE IF len.val > Len(data)
           THEN /\ all' = Err("InvalidLength") /\ pa_pc' = "done"
                /\ UNCHANGED <<data, raw_tags>>
           ELSE /\ raw_tags' = Append(raw_tags, SubSeq(data, 1, len.val))
                /\ data' = SubSeq(data, len.val + 1, Len(data))
                /\ UNCHANGED <<all, pa_pc>>
    /\ step' = step + 1
    /\ UNCHANGED <<overflow_checks, scenario, tags, remnant, stream>>
    /\ UNCHANGED <<tag_vars, input_vars, amount_vars, hop_vars, buf_vars>>

\* raw_tags.iter().flat_map(Tag::parse).collect_vec(): a Result iterates over
\* its Ok value, and over nothing when it is an Err.
Collect(raws) ==
    LET results == [i \in 1..Len(raws) |-> Tag_parse(raws[i])]
    IN  IF \E i \in 1..Len(raws) : IsPanic(results[i])
        THEN results[CHOOSE i \in 1..Len(raws) :
                        IsPanic(results[i]) /\ \A j \in 1..(i - 1) : ~IsPanic(results[j])]
        ELSE LET oks == SelectSeq(results, IsOk)
             IN  Ok([i \in 1..Len(oks) |-> oks[i].val])

\* The end of the loop and the rest of parse_all.
ParseAllCollect ==
    /\ pa_pc = "loop" /\ Len(data) <= 3
    /\ all' = Collect(raw_tags)
    /\ pa_pc' = "done"
    /\ step' = step + 1
    /\ UNCHANGED <<overflow_checks, scenario, tags, remnant, stream, data, raw_tags>>
    /\ UNCHANGED <<tag_vars, input_vars, amount_vars, hop_vars, buf_vars>>

Shorten ==
    /\ scenario = "amount" /\ step = 0
    /\ short' = shorten_amount(amount)
    /\ step' = 1
    /\ UNCHANGED <<overflow_checks, scenario, pico, amount, unshort>>
    /\ UNCHANGED <<tag_vars, input_vars, all_vars, hop_vars, buf_vars>>

Unshorten ==
    /\ scenario = "amount" /\ step = 1
    /\ unshort' = unshorten_amount(short)
    /\ step' = 2
    /\ UNCHANGED <<overflow_checks, scenario, pico, amount, short>>
    /\ UNCHANGED <<tag_vars, input_vars, all_vars, hop_vars, buf_vars>>

Pack ==
    /\ scenario = "hop" /\ step = 0
    /\ packed' = ExtraHop_pack(hop)
    /\ step' = 1
    /\ UNCHANGED <<overflow_checks, scenario, hop, hop_parsed>>
    /\ UNCHANGED <<tag_vars, input_vars, all_vars, amount_vars, buf_vars>>

HopParse ==
    /\ scenario = "hop" /\ step = 1 /\ IsOk(packed)
    /\ hop_parsed' = ExtraHop_parse(packed.val)
    /\ step' = 2
    /\ UNCHANGED <<overflow_checks, scenario, hop, packed>>
    /\ UNCHANGED <<tag_vars, input_vars, all_vars, amount_vars, buf_vars>>

HopParseAll ==
    /\ scenario = "buf" /\ step = 0
    /\ hops' = ExtraHop_parse_all(buf)
    /\ step' = 1
    /\ UNCHANGED <<overflow_checks, scenario, path, buf>>
    /\ UNCHANGED <<tag_vars, input_vars, all_vars, amount_vars, hop_vars>>

Next ==
    \/ Encode \/ Decode
    \/ Parse \/ Reencode
    \/ ParseAllStep \/ ParseAllCollect
    \/ Shorten \/ Unshorten
    \/ Pack \/ HopParse \/ HopParseAll

Spec == Init /\ [][Next]_vars

(***************************************************************************)
(* What the specification states of these calls.                           *)
(***************************************************************************)
CeilDiv(a, b) == (a + b - 1) \div b

\* The number of 5-bit symbols of the payload of a tag (8n bits in ceil(8n/5)
\* symbols; a u64 in its minimal base-32 digits, one for 0).
PayloadSymbols(t) ==
    CASE t.kind \in {"PaymentHash", "DescriptionHash"} -> CeilDiv(8 * Len(t.hash), 5)
      [] t.kind = "Description" -> CeilDiv(8 * Len(t.description), 5)
      [] t.kind = "FallbackAddress" -> 1 + CeilDiv(8 * Len(t.hash), 5)
      [] t.kind = "Expiry" -> IF t.seconds = <<>> THEN 1 ELSE CeilDiv(Len(t.seconds), 5)
      [] t.kind = "MinFinalCltvExpiry" ->
            IF t.blocks = <<>> THEN 1 ELSE CeilDiv(Len(t.blocks), 5)
      [] t.kind = "RoutingInfo" -> CeilDiv(8 * CHUNK_LENGTH * Len(t.path), 5)
      [] t.kind = "UnknownTag" -> Len(t.bytes)

KnownLetters == {LetterP, LetterD, LetterH, LetterF, LetterX, LetterC, LetterR}

\* The tags C1 is about.  An UnknownTag is one Tag::parse can return: of an
\* unknown letter, or of the letter f with a version above 18.
WithinBounds(t) ==
    CASE t.kind \in {"PaymentHash", "DescriptionHash"} -> Len(t.hash) = 32
      [] t.kind = "Description" -> IsUtf8(t.description)
      [] t.kind = "FallbackAddress" -> t.version \in 0..18
      [] t.kind = "RoutingInfo" -> \A i \in 1..Len(t.path) : Len(t.path[i].pub_key) = 33
      [] t.kind = "UnknownTag" ->
            \/ t.tag \notin KnownLetters
            \/ t.tag = LetterF /\ Len(t.bytes) > 0 /\ t.bytes[1] > 18
      [] OTHER -> TRUE

\* C1: a tag within bounds whose payload is at most 1023 symbols serializes,
\* and Tag::parse of the result is the tag.
C1_TagRoundTrip ==
    (scenario = "tag" /\ WithinBounds(tag) /\ PayloadSymbols(tag) <= 1023)
        => /\ step >= 1 => IsOk(enc)
           /\ step = 2 => dec = Ok(tag)

\* C2: a tag whose payload is 1024 symbols or more does not serialize:
\* Tag::to_vec_u5 returns Err(InvalidLength).
C2_EncodeLengthBound ==
    (scenario = "tag" /\ step >= 1 /\ PayloadSymbols(tag) >= 1024)
        => enc = Err("InvalidLength")

\* The length the two length symbols of a stream declare.
Declared(v) == v[2] * 32 + v[3]

\* C3: Tag::parse of a buffer shorter than 3 symbols, or shorter than the
\* declared length + 3, is Err(InvalidLength); it is Ok only when len + 3
\* symbols are there.
C3_ShortBufferRejected ==
    (scenario = "input" /\ step >= 1)
        => /\ (Len(input) < 3 \/ Declared(input) + 3 > Len(input))
                 => parsed = Err("InvalidLength")
           /\ IsOk(parsed) => (Len(input) >= 3 /\ Declared(input) + 3 <= Len(input))

\* C4: Tag::parse_all of the serialized tags t1..tn, followed by fewer than
\* 3 symbols, is [t1, ..., tn].
C4_ParseAllRoundTrip ==
    (scenario = "tags" /\ pa_pc = "done") => all = Ok(tags)

\* C5: when Tag::parse is an Err for one of the tags parse_all has split off,
\* parse_all returns the first such Err.
C5_ParseAllShortCircuits ==
    (scenario = "stream" /\ pa_pc = "done"
       /\ \E i \in 1..Len(raw_tags) : IsErr(Tag_parse(raw_tags[i])))
        => all = Tag_parse(raw_tags[CHOOSE i \in 1..Len(raw_tags) :
                                       /\ IsErr(Tag_parse(raw_tags[i]))
                                       /\ \A j \in 1..(i - 1) :
                                             ~IsErr(Tag_parse(raw_tags[j]))])

RECURSIVE DivPow1000(_, _)
\* k / 1000^j and whether the division is exact.
DivPow1000(k, j) ==
    IF j = 0 THEN [q |-> k, exact |-> TRUE]
    ELSE LET qr == DivSmall(k, 1000)
             rest == DivPow1000(qr.q, j - 1)
         IN  [q |-> rest.q, exact |-> qr.r = 0 /\ rest.exact]

\* The suffixes of the divisors 1000^0 .. 1000^4.
Suffixes == <<(<<"p">>), (<<"n">>), (<<"u">>), (<<"m">>), (<<>>)>>

\* k / d in decimal and the suffix of d, the largest divisor of the table that
\* divides k.
ExpectedShort(k) ==
    LET j == CHOOSE j \in 0..4 :
                 /\ DivPow1000(k, j).exact
                 /\ \A i \in (j + 1)..4 : ~DivPow1000(k, i).exact
    IN  to_string(DivPow1000(k, j).q) \o Suffixes[j + 1]

\* C6: shorten_amount of k pico-BTC is k / d in decimal with the suffix of the
\* largest divisor d of the table that divides k, and unshorten_amount of it
\* is the amount.
C6_ShortenLossless ==
    (scenario = "amount")
        => /\ step >= 1 => short = ExpectedShort(pico)
           /\ step = 2 => unshort = Ok(amount)

\* The streams C7 is about: exactly the declared payload, and an unknown
\* letter or a fallback address of a version above 18.
IsUnknownStream(v) ==
    /\ Len(v) >= 3
    /\ Len(v) = Declared(v) + 3
    /\ \/ v[1] \notin KnownLetters
       \/ v[1] = LetterF /\ Len(v) >= 4 /\ v[4] > 18

\* C7: Tag::parse of such a stream is UnknownTag with the letter and the
\* whole payload, and Tag::to_vec_u5 of it is the stream.
C7_UnknownTagPreserved ==
    (scenario = "input" /\ IsUnknownStream(input))
        => /\ step >= 1 => parsed = Ok(UnknownTag(input[1], SubSeq(input, 4, Len(input))))
           /\ step = 2 => reenc = Ok(input)

\* C8: ExtraHop::pack of a hop with a 33-byte key is 51 bytes: the key, then
\* the channel id (8 bytes), the base fee (4), the proportional fee (4) and the
\* expiry delta (2), big-endian; ExtraHop::parse of it is the hop; and
\* ExtraHop::parse_all of n bytes is the floor(n / 51) hops of its whole chunks,
\* in order.
C8_ExtraHopFraming ==
    /\ (scenario = "hop" /\ Len(hop.pub_key) = 33 /\ step >= 1)
          => /\ IsOk(packed)
             /\ Len(packed.val) = 51
             /\ SubSeq(packed.val, 1, 33) = hop.pub_key
             /\ BEValue(SubSeq(packed.val, 34, 41)) = hop.short_channel_id
             /\ BEValue(SubSeq(packed.val, 42, 45)) = hop.fee_base_msat
             /\ BEValue(SubSeq(packed.val, 46, 49)) = hop.fee_proportional_millionths
             /\ BEValue(SubSeq(packed.val, 50, 51)) = hop.cltv_expiry_delta
             /\ step = 2 => hop_parsed = Ok(hop)
    /\ (scenario = "buf" /\ step = 1)
          => /\ Len(hops) = Len(buf) \div 51
             /\ hops = path

\* A hop with a 33-byte key and fields that fill their widths, packed and
\* parsed back.
C8_Witness ==
    /\ scenario = "hop" /\ step = 2
    /\ Len(hop.pub_key) = 33
    /\ hop.short_channel_id = Ones(64) /\ hop.cltv_expiry_delta = NatOfInt(3)
    /\ Len(packed.val) = 51
    /\ hop_parsed = Ok(hop)

\* C9: the declared length Tag::parse has computed from hi and lo is
\* hi * 32 + lo, and the tag size Tag::parse_all has computed for the first
\* tag of its stream is hi * 32 + lo + 3.
C9_LengthHeaderExact ==
    /\ (scenario = "input" /\ step >= 1 /\ Len(input) >= 3)
          => DeclaredLen(input[2], input[3]) = Ok(Declared(input))
    /\ (scenario = "stream" /\ step >= 1 /\ Len(stream) > 3)
          => TagSize(stream[2], stream[3]) = Ok(Declared(stream) + 3)

\* C10: Tag::parse of a 'p' tag is a PaymentHash only when the declared length
\* is 52, its hash being the declared payload; with another declared length
\* it is an Err.
C10_PaymentHashDeclaredLength ==
    (scenario = "input" /\ step >= 1 /\ Len(input) >= 3 /\ input[1] = LetterP)
        => /\ IsOk(parsed)
                => /\ Declared(input) = 52
                   /\ Len(input) >= Declared(input) + 3
                   /\ parsed.val = PaymentHash(to_u8_vec(SubSeq(input, 4, 55)).val)
           /\ Declared(input) # 52 => IsErr(parsed)

\* C11: Tag::parse_all terminates: every iteration of its loop that splits a
\* tag off removes at least 3 symbols from the data left (the tag size is never
\* 0), and the call ends with Ok or Err.
C11_ParseAllTerminates ==
    (scenario = "stream")
        => /\ Len(data) + 3 * Len(raw_tags) <= Len(stream)
           /\ \A i \in 1..Len(raw_tags) : Len(raw_tags[i]) >= 3
           /\ pa_pc = "done" => (IsOk(all) \/ IsErr(all))
====
